---- MODULE Spec2Model ----
(***************************************************************************)
(* Hessian-Free training (hessfree): Trainer.Train, cgSolver and           *)
(* DampingLearner / dampedObjective.                                       *)
(*                                                                         *)
(* float64 values are modelled as exact rationals <<n, d>> in lowest terms *)
(* with d > 0, plus the IEEE specials +Inf = <<1, 0>>, -Inf = <<-1, 0>>   *)
(* and NaN = <<0, 0>>.  A ConstParamDelta is a vector of such values;      *)
(* Go maps are references, so deltas live in a heap and are named by       *)
(* their index in it (0 is the nil map).                                   *)
(***************************************************************************)
EXTENDS Integers, Sequences, FiniteSets, TLC

(***************************************************************************)
(* Bounds of the model.                                                    *)
(***************************************************************************)
\* largest sample-set size tried
MaxSamples == 3
\* largest Trainer.BatchSize tried
MaxBatchSize == 2
\* mini-batches started per run of Train while the stop signal is down
MaxBatches == 2
\* CG iterations per solver while the stop signal is down
MaxSteps == 2
\* the epoch number is only reported to the UI; it is counted up to here
MaxEpoch == 2
\* quadratic values recorded by one solver when converging() is tried on its own
MaxQuadValues == 11
\* MakeObjective/Adjust cycles of a DampingLearner tried on its own
MaxCycles == 4
\* CG iterations of one solver when its checkpoints are tried on their own
MaxIters == 13

(***************************************************************************)
(* Program constants.                                                      *)
(***************************************************************************)
defaultDampingCoeff == 1
defaultConvergenceMinK == 10

(***************************************************************************)
(* float64 arithmetic.                                                     *)
(***************************************************************************)
Abs(n) == IF n < 0 THEN -n ELSE n

Sgn(n) == IF n < 0 THEN -1 ELSE IF n > 0 THEN 1 ELSE 0

RECURSIVE GCD(_, _)
GCD(a, b) == IF b = 0 THEN a ELSE GCD(b, a % b)

RNorm(n, d) ==
    IF d = 0 THEN <<Sgn(n), 0>>
    ELSE LET g == GCD(Abs(n), Abs(d))
         IN  <<(Sgn(d) * n) \div g, Abs(d) \div g>>

R(i) == <<i, 1>>

NaN == <<0, 0>>

IsNaN(x) == x = NaN

IsInf(x) == x[2] = 0 /\ x[1] # 0

IsFinite(x) == x[2] # 0

RAdd(x, y) ==
    IF IsNaN(x) \/ IsNaN(y) THEN NaN
    ELSE IF IsInf(x) /\ IsInf(y) THEN (IF x = y THEN x ELSE NaN)
    ELSE IF IsInf(x) THEN x
    ELSE IF IsInf(y) THEN y
    ELSE IF x[2] = y[2] THEN RNorm(x[1] + y[1], x[2])
    ELSE LET g == GCD(x[2], y[2])
         IN  RNorm(x[1] * (y[2] \div g) + y[1] * (x[2] \div g), (x[2] \div g) * y[2])

RNeg(x) == <<-x[1], x[2]>>

RSub(x, y) == RAdd(x, RNeg(y))

\* common factors are cancelled before the products are formed
RMul(x, y) ==
    IF x[2] = 0 \/ y[2] = 0 THEN <<Sgn(x[1]) * Sgn(y[1]), 0>>
    ELSE IF x[1] = 0 \/ y[1] = 0 THEN <<0, 1>>
    ELSE LET g == GCD(Abs(x[1]), y[2])
             h == GCD(Abs(y[1]), x[2])
         IN  <<(x[1] \div g) * (y[1] \div h), (x[2] \div h) * (y[2] \div g)>>

\* x / y; a finite nonzero x over 0 is an infinity, 0 / 0 is NaN
RDiv(x, y) ==
    IF IsNaN(x) \/ IsNaN(y) THEN NaN
    ELSE IF IsInf(y) THEN (IF IsInf(x) THEN NaN ELSE R(0))
    ELSE IF y[1] = 0 THEN <<Sgn(x[1]), 0>>
    ELSE RMul(x, <<Sgn(y[1]) * y[2], Abs(y[1])>>)

\* x < y; every comparison with NaN is false
RLt(x, y) ==
    IF IsNaN(x) \/ IsNaN(y) THEN FALSE
    ELSE IF x[2] = 0 /\ y[2] = 0 THEN x[1] < y[1]
    ELSE x[1] * y[2] < y[1] * x[2]

RGt(x, y) == RLt(y, x)

RLe(x, y) == ~IsNaN(x) /\ ~IsNaN(y) /\ ~RLt(y, x)

\* int(x) of a finite x: truncation toward zero
RTrunc(x) == Sgn(x[1]) * (Abs(x[1]) \div x[2])

\* math.Max(x, y)
RMax(x, y) == IF IsNaN(x) \/ IsNaN(y) THEN NaN ELSE IF RLt(x, y) THEN y ELSE x

\* math.Pow(x, e) for an integer e >= 0
RECURSIVE RPow(_, _)
RPow(x, e) == IF e = 0 THEN R(1) ELSE RMul(x, RPow(x, e - 1))

\* The powers of a rate n/10 are computed digit by digit, so that 13^e does not
\* leave the integers of the checker.  ds holds decimal digits, the lowest first.
RECURSIVE timesDigits(_, _, _)
timesDigits(ds, m, carry) ==
    IF ds = <<>>
    THEN (IF carry = 0 THEN <<>> ELSE <<carry % 10>> \o timesDigits(<<>>, m, carry \div 10))
    ELSE LET v == ds[1] * m + carry
         IN  <<v % 10>> \o timesDigits(Tail(ds), m, v \div 10)

RECURSIVE powDigits(_, _)
powDigits(n, e) == IF e = 0 THEN <<1>> ELSE timesDigits(powDigits(n, e - 1), n, 0)

RECURSIVE digitsValue(_)
digitsValue(ds) == IF ds = <<>> THEN 0 ELSE ds[1] + 10 * digitsValue(Tail(ds))

\* int(math.Pow(x, e)) for a rate x > 0 and an integer e >= 0: of a rate n/10 the
\* digits of n^e above the lowest e
truncPow(x, e) ==
    IF x[2] = 10 /\ x[1] > 0
    THEN LET ds == powDigits(x[1], e)
         IN  IF e >= Len(ds) THEN 0 ELSE digitsValue(SubSeq(ds, e + 1, Len(ds)))
    ELSE RTrunc(RPow(x, e))

(***************************************************************************)
(* ConstParamDelta: the vector algebra of a delta.                         *)
(***************************************************************************)
\* ConstParamDelta{}, and the nil map of a field never assigned: no entries
EmptyDelta == <<>>

\* a delta with a zero for each entry of the parameters p
zeroOver(p) == [k \in DOMAIN p |-> R(0)]

RECURSIVE RSum(_, _)
RSum(v, k) == IF k = 0 THEN R(0) ELSE RAdd(RSum(v, k - 1), v[k])

\* c.addDelta(d, s): c += s * d, in place
addDelta(c, d, s) == [k \in DOMAIN c |-> RAdd(c[k], RMul(s, d[k]))]

\* c.scale(f): c *= f, in place
scale(c, f) == [k \in DOMAIN c |-> RMul(c[k], f)]

dot(a, b) == RSum([k \in DOMAIN a |-> RMul(a[k], b[k])], Len(a))

magSquared(a) == dot(a, a)

\* c.copy(): a new map with the same entries
copy(c) == [k \in DOMAIN c |-> c[k]]

(***************************************************************************)
(* dampedObjective (learner.go): the wrapped objective's result is an      *)
(* input of each operator, n is s.Len().                                   *)
(***************************************************************************)
dampedQuad(d, wrapped, delta, n) ==
    LET scaler == R(n)
        term(k) == RMul(RMul(scaler, delta[k]), delta[k])
    IN  RAdd(wrapped, RSum([k \in DOMAIN delta |-> term(k)], Len(delta)))

dampedQuadGrad(d, wrapped, delta, n) ==
    LET scaler == R(2 * n)
    IN  [k \in DOMAIN delta |-> RAdd(wrapped[k], RMul(scaler, delta[k]))]

dampedQuadHessian(d, wrapped, delta, n) ==
    LET scaler == R(2 * n)
    IN  [k \in DOMAIN delta |-> RAdd(wrapped[k], RMul(scaler, delta[k]))]

\* a true cost that has the coefficient added
dampedObjectiveShifted(d, wrapped) == RAdd(wrapped, d.Coeff)

\* dampedObjective.Objective: the wrapped objective's true cost
dampedObjective(d, wrapped) == wrapped

(***************************************************************************)
(* The wrapped (undamped) Objective is an external collaborator.  Its true *)
(* cost is a function of the delta that is sampled lazily: obj holds the   *)
(* values returned so far, and a delta asked again gets the same value.    *)
(* A delta of zeros is the same step as the empty delta.                   *)
(***************************************************************************)
objKey(x) == IF \A k \in DOMAIN x : x[k] = R(0) THEN EmptyDelta ELSE x

\* the true cost at x, which is v if x was not asked before
objValue(obj, x, v) == IF objKey(x) \in DOMAIN obj THEN obj[objKey(x)] ELSE v

\* the objective after it was asked for the true cost at x
objAsked(obj, x, v) ==
    IF objKey(x) \in DOMAIN obj THEN obj
    ELSE [y \in DOMAIN obj \cup {objKey(x)} |-> IF y = objKey(x) THEN v ELSE obj[y]]

NoObjective == [y \in {} |-> R(0)]

(***************************************************************************)
(* cgSolver                                                                *)
(***************************************************************************)
defaultConvergenceKScale == <<1, 10>>

defaultConvergenceEpsilon == <<1, 2000>>

defaultBacktrackRate == <<13, 10>>

\* a cgSolver with the four fields Train names; the others have their zero value
cgSolver(objective, samples, solution) ==
    [Objective         |-> objective,
     Samples           |-> samples,
     Solution          |-> solution,
     residual          |-> EmptyDelta,
     projectedResidual |-> EmptyDelta,
     residualMag2      |-> R(0),
     hessianProduct    |-> EmptyDelta,
     justBacktracked   |-> FALSE,
     backtrackCount    |-> 0,
     backtrackDeltas   |-> <<>>,
     backtrackValues   |-> <<>>,
     startObjective    |-> R(0),
     quadValues        |-> <<>>]

\* a cgSolver literal that leaves Solution out
newSolverCold(objective, samples, lastSol) == cgSolver(objective, samples, 0)

\* the cgSolver literal of Train: Solution is lastSolution
newSolver(objective, samples, lastSol) == cgSolver(objective, samples, lastSol)

\* a window that leaves minK out
convergenceKScaleOnly(minK, kScale, len) == RTrunc(RMul(kScale, R(len)))

\* k of converging(): int(math.Max(minK, kScale * len(quadValues)))
convergenceK(minK, kScale, len) == RTrunc(RMax(minK, RMul(kScale, R(len))))

converging(quadValues, startObjective, conv) ==
    LET len == Len(quadValues)
        kScale == IF conv.KScale = R(0) THEN defaultConvergenceKScale ELSE conv.KScale
        minK == IF conv.MinK = R(0) THEN R(defaultConvergenceMinK) ELSE conv.MinK
        eps == IF conv.Epsilon = R(0) THEN defaultConvergenceEpsilon ELSE conv.Epsilon
        k == convergenceK(minK, kScale, len)
    IN  IF len < 2 \/ RGt(quadValues[len], startObjective) THEN FALSE
        ELSE IF k >= len THEN FALSE
        ELSE LET currentImprovement == RSub(quadValues[len], startObjective)
                 oldImprovement == RSub(quadValues[len - k], startObjective)
             IN  RLt(RDiv(RSub(currentImprovement, oldImprovement), currentImprovement),
                     RMul(R(k), eps))

\* a count that goes up by one for each checkpoint
nextBacktrackCountByOne(btRate, bc, doneIters) == bc + 1

\* the loop of updateBacktracking: the least count from bc on with
\* int(btRate^count) > doneIters
RECURSIVE nextBacktrackCount(_, _, _)
nextBacktrackCount(btRate, bc, doneIters) ==
    IF truncPow(btRate, bc) <= doneIters
    THEN nextBacktrackCount(btRate, bc + 1, doneIters) ELSE bc

\* w = [c: the solver, heap: the deltas, obj: the wrapped objective's true cost]
\* bv: the true cost the objective returns for the current solution
updateBacktracking(w, tr, bv) ==
    LET c == w.c
        doneIters == Len(c.quadValues)
        btRate == IF tr.BacktrackRate = R(0) THEN defaultBacktrackRate ELSE tr.BacktrackRate
        expValue == truncPow(btRate, c.backtrackCount)
        sol == w.heap[c.Solution]
        btValue == dampedObjective(c.Objective, objValue(w.obj, sol, bv))
    IN  IF expValue > doneIters THEN w
        ELSE [c    |-> [c EXCEPT !.backtrackCount =
                                     nextBacktrackCount(btRate, c.backtrackCount, doneIters),
                                 !.backtrackDeltas = Append(@, Len(w.heap) + 1),
                                 !.backtrackValues = Append(@, btValue),
                                 !.justBacktracked = TRUE],
              heap |-> Append(w.heap, copy(sol)),
              obj  |-> objAsked(w.obj, sol, bv)]

\* the wrapped objective's QuadHessian result for delta: the product of its
\* curvature matrix wh with delta
quadHessian(wh, delta) ==
    [k \in DOMAIN delta |->
        RSum([j \in DOMAIN delta |-> RMul(wh[k][j], delta[j])], Len(delta))]

\* wg: the wrapped objective's QuadGrad result, wh: its curvature matrix,
\* sv: its true cost at the zero delta
initializeIfNeeded(w, p, wg, sv, wh) ==
    LET c == w.c
        n == Len(c.Samples)
        heap1 == IF c.Solution = 0 THEN Append(w.heap, zeroOver(p)) ELSE w.heap
        solution == IF c.Solution = 0 THEN Len(w.heap) + 1 ELSE c.Solution
        residual == scale(dampedQuadGrad(c.Objective, wg, heap1[solution], n), R(-1))
        projected == copy(residual)
    IN  IF c.residual # EmptyDelta
        THEN [w EXCEPT !.c.Solution = solution, !.heap = heap1]
        ELSE [c    |-> [c EXCEPT !.Solution = solution,
                                 !.residual = residual,
                                 !.projectedResidual = projected,
                                 !.residualMag2 = magSquared(residual),
                                 !.startObjective =
                                     dampedObjective(c.Objective, objValue(w.obj, EmptyDelta, sv)),
                                 !.hessianProduct =
                                     dampedQuadHessian(c.Objective, quadHessian(wh, projected),
                                                       projected, n)],
              heap |-> heap1,
              obj  |-> objAsked(w.obj, EmptyDelta, sv)]

\* the CG update of Step: the solution, the residual, the search direction, the
\* new Hessian product and quadratic value.
\* wh, qv: the wrapped objective's curvature matrix and quadratic value
cgUpdate(w, wh, qv) ==
    LET c == w.c
        projHessianMag == dot(c.projectedResidual, c.hessianProduct)
        stepSize == RDiv(c.residualMag2, projHessianMag)
        solution == addDelta(w.heap[c.Solution], c.projectedResidual, stepSize)
        oldRMag2 == c.residualMag2
        residual == addDelta(c.residual, c.hessianProduct, RNeg(stepSize))
        residualMag2 == magSquared(residual)
        beta == RDiv(residualMag2, oldRMag2)
        projected == addDelta(scale(c.projectedResidual, beta), residual, R(1))
    IN  [w EXCEPT !.heap[c.Solution] = solution,
                  !.c.residual = residual,
                  !.c.residualMag2 = residualMag2,
                  !.c.projectedResidual = projected,
                  !.c.hessianProduct =
                      dampedQuadHessian(c.Objective, quadHessian(wh, projected), projected,
                                        Len(c.Samples)),
                  !.c.quadValues = Append(@, qv)]

\* the CG update with justBacktracked left as it was
stepUpdateKeepingFlag(w, wh, qv) == cgUpdate(w, wh, qv)

\* Step after its first test: justBacktracked is cleared, then the CG update
stepUpdate(w, wh, qv) == [cgUpdate(w, wh, qv) EXCEPT !.c.justBacktracked = FALSE]

\* a first test that never stops Step
degenerateNever(c) == FALSE

\* whether Step stops at its first test
degenerate(c) ==
    dot(c.projectedResidual, c.hessianProduct) = R(0) \/ c.residualMag2 = R(0)

\* cgSolver.Step: the state after it and its result shouldContinue
\* (tr: the Trainer, p: its Learner's parameters)
Step(w, tr, p, wg, sv, wh, qv, bv) ==
    LET w1 == initializeIfNeeded(w, p, wg, sv, wh)
        w2 == stepUpdate(w1, wh, qv)
    IN  IF degenerate(w1.c) THEN [w |-> w1, shouldContinue |-> FALSE]
        ELSE IF converging(w2.c.quadValues, w2.c.startObjective, tr.Convergence)
        THEN [w |-> w2, shouldContinue |-> FALSE]
        ELSE [w |-> updateBacktracking(w2, tr, bv), shouldContinue |-> TRUE]

\* a scan that replaces the best checkpoint by a later one of equal value
RECURSIVE bestIndexLatest(_, _)
bestIndexLatest(values, upto) ==
    IF upto <= 1 THEN upto
    ELSE LET b == bestIndexLatest(values, upto - 1)
         IN  IF RLe(values[upto], values[b]) THEN upto ELSE b

\* the scan of Best: the index of the checkpoint it returns
RECURSIVE bestIndex(_, _)
bestIndex(values, upto) ==
    IF upto <= 1 THEN upto
    ELSE LET b == bestIndex(values, upto - 1)
         IN  IF RLt(values[upto], values[b]) THEN upto ELSE b

\* cgSolver.Best: the state after it and the delta it returns
Best(w, bv) ==
    LET c == w.c
        sol == IF c.Solution = 0 THEN EmptyDelta ELSE w.heap[c.Solution]
        btValue == dampedObjective(c.Objective, objValue(w.obj, sol, bv))
        w1 == IF c.justBacktracked THEN w
              ELSE [w EXCEPT !.c.backtrackDeltas = Append(@, c.Solution),
                             !.c.backtrackValues = Append(@, btValue),
                             !.c.justBacktracked = TRUE,
                             !.obj = objAsked(w.obj, sol, bv)]
        values == w1.c.backtrackValues
    IN  [w |-> w1, bestDelta |-> w1.c.backtrackDeltas[bestIndex(values, Len(values))]]

(***************************************************************************)
(* DampingLearner                                                          *)
(***************************************************************************)
\* a MakeObjective without the default
makeCoeffKeep(coeff) == coeff

\* a MakeObjective that sets the default whatever the coefficient is
makeCoeffReset(coeff) == R(defaultDampingCoeff)

\* MakeObjective: the coefficient after the default is applied
makeCoeff(coeff) == IF coeff = R(0) THEN R(defaultDampingCoeff) ELSE coeff

\* Adjust: the true cost Adjust takes for the cost after the step
\* (obj: lastObjective's true cost, cv: its value at the zero delta if not asked yet)
adjustRealOffset(obj, delta, cv) == objValue(obj, EmptyDelta, cv)

adjustTrust(realOffset, centerVal, quadOffset) ==
    RDiv(RSub(realOffset, centerVal), RSub(quadOffset, centerVal))

\* thresholds that take a trust that is not a number for a low one
adjustCoeffUnordered(coeff, trust) ==
    IF ~RLe(<<1, 4>>, trust) THEN RMul(coeff, RDiv(R(3), R(2)))
    ELSE IF RGt(trust, <<3, 4>>) THEN RMul(coeff, RDiv(R(2), R(3)))
    ELSE coeff

adjustCoeff(coeff, trust) ==
    IF RLt(trust, <<1, 4>>) THEN RMul(coeff, RDiv(R(3), R(2)))
    ELSE IF RGt(trust, <<3, 4>>) THEN RMul(coeff, RDiv(R(2), R(3)))
    ELSE coeff

(***************************************************************************)
(* Inputs: the values the collaborators may return.                        *)
(***************************************************************************)
\* results of the wrapped QuadGrad, for parameters p
gradVals(p) == {zeroOver(p), [k \in DOMAIN p |-> IF k = 1 THEN R(-1) ELSE R(0)]}

\* curvature matrices of the wrapped objective, for parameters p: symmetric and
\* positive semi-definite, as a Gauss-Newton matrix is
hessVals(p) == {[k \in DOMAIN p |-> [j \in DOMAIN p |-> R(v)]] : v \in {0, 1}}

\* quadratic values returned with QuadHessian
QuadVals == {R(0), R(1)}

\* results of the wrapped Quad
QuadOffsets == {R(-1), R(0)}

\* true costs returned by the wrapped Objective
ObjVals == {R(0), R(1)}

\* t.Samples.Copy() after sgd.ShuffleSampleSet: the samples are opaque to Train,
\* so a sample set is the sequence of the places its samples have in this copy
shuffledCopy(n) == [k \in 1..n |-> k]

(***************************************************************************)
(* State                                                                   *)
(***************************************************************************)
VARIABLES
    t,              \* the Trainer: Samples (their number), BatchSize, Convergence, BacktrackRate
    stop,           \* the UI's stop signal, what ShouldStop() returns
    pc,             \* where Train is
    epoch, miniBatch, i, shuffled, lastSolution, useDelta,   \* Train's locals
    solver,         \* Train's cgSolver
    heap,           \* the ConstParamDelta maps alive, by reference
    params,         \* the Learner's parameters: the live variable values
    DampingCoeff,   \* DampingLearner.DampingCoeff
    lastObjective,  \* DampingLearner.lastObjective: the true cost it has returned
    hessian,        \* and the curvature matrix its QuadHessian multiplies by
    adj,            \* the last DampingLearner.Adjust call: its locals, and the CG run it ends
    learnerCalls,   \* the calls made on the Learner: <<method, number of the mini-batch>>
    solverCalls,    \* the calls made on the current cgSolver
    startSolution,  \* the delta the current cgSolver started from
    batches,        \* mini-batches started
    stopSeen,       \* a ShouldStop() poll has returned true
    handed,         \* the mini-batches handed to a cgSolver in the current epoch
    polled,         \* the ShouldStop() polls made, and the signal when Best() was called
    prev,           \* the previous mini-batch: the delta committed, the solver's last Solution
    probe           \* the last call of a function tried on its own, with its result

trainVars == <<pc, epoch, miniBatch, i, shuffled, lastSolution, useDelta>>

solverVars == <<solver, heap, solverCalls, startSolution>>

learnerVars == <<params, DampingCoeff, lastObjective, hessian, adj, learnerCalls>>

histVars == <<handed, polled, prev>>

vars == <<t, stop, trainVars, solverVars, learnerVars, batches, stopSeen, histVars, probe>>

NoSolver == cgSolver([Coeff |-> R(0)], <<>>, 0)

NoAdjust ==
    [called |-> FALSE, steps |-> 0, start |-> EmptyDelta,
     delta |-> EmptyDelta, paramsBefore |-> EmptyDelta,
     coeffBefore |-> R(0), quadOffset |-> R(0), centerVal |-> R(0),
     realOffset |-> R(0), costAtDelta |-> R(0), trust |-> R(0)]

NoCalls == [Step |-> 0, Best |-> 0]

NoProbe == [fn |-> "none"]

NoPolls == [Batch |-> 0, CG |-> 0, atEnd |-> FALSE]

NoPrev == [any |-> FALSE, delta |-> EmptyDelta, final |-> EmptyDelta]

DefaultConvergence == [MinK |-> R(0), KScale |-> R(0), Epsilon |-> R(0)]

\* Train has not started: its locals, the solver and the Learner's records are empty
TrainIdle ==
    /\ stop = FALSE
    /\ pc = "epoch"
    /\ epoch = 0
    /\ miniBatch = 0
    /\ i = 0
    /\ shuffled = <<>>
    /\ lastSolution = 0
    /\ useDelta = 0
    /\ solver = NoSolver
    /\ heap = <<>>
    /\ lastObjective = NoObjective
    /\ hessian = <<>>
    /\ adj = NoAdjust
    /\ learnerCalls = <<>>
    /\ solverCalls = NoCalls
    /\ startSolution = EmptyDelta
    /\ batches = 0
    /\ stopSeen = FALSE
    /\ handed = <<>>
    /\ polled = NoPolls
    /\ prev = NoPrev

\* a Trainer over a Learner with one parameter, with the default CG settings
Init ==
    /\ t \in [Samples       : 0..MaxSamples,
              BatchSize     : 1..MaxBatchSize,
              Convergence   : {DefaultConvergence},
              BacktrackRate : {R(0)}]
    /\ params = <<R(0)>>
    /\ DampingCoeff \in {R(0), R(2)}
    /\ probe = NoProbe
    /\ TrainIdle

(***************************************************************************)
(* The UI                                                                  *)
(***************************************************************************)
\* The user asks to stop, at any time while Train runs; the signal stays up.
RaiseStop ==
    /\ ~stop
    /\ pc # "returned"
    /\ stop' = TRUE
    /\ UNCHANGED <<t, trainVars, solverVars, learnerVars, batches, histVars, stopSeen, probe>>

(***************************************************************************)
(* Trainer.Train                                                           *)
(***************************************************************************)
\* the head of the epoch loop: a shuffled copy of the samples
EpochStart ==
    /\ pc = "epoch"
    /\ shuffled' = shuffledCopy(t.Samples)
    /\ miniBatch' = 0
    /\ i' = 0
    /\ pc' = "loop"
    /\ handed' = <<>>
    /\ UNCHANGED <<t, stop, epoch, lastSolution, useDelta, solverVars, learnerVars,
                   batches, polled, prev, stopSeen, probe>>

\* i >= shuffled.Len(): the mini-batch loop ends, the next epoch starts
EpochEnd ==
    /\ pc = "loop"
    /\ ~(i < Len(shuffled))
    /\ epoch' = IF epoch < MaxEpoch THEN epoch + 1 ELSE epoch
    /\ pc' = "epoch"
    /\ UNCHANGED <<t, stop, miniBatch, i, shuffled, lastSolution, useDelta, solverVars,
                   learnerVars, batches, histVars, stopSeen, probe>>

\* a poll that leaves its loop with break where Train returns
stopBreak(at) == IF at = "poll" THEN "best" ELSE "epoch"

\* where Train is after a ShouldStop() poll at `at` returned true: it has returned
stopReturn(at) == "returned"

\* the poll before a mini-batch returns true
BatchStop ==
    /\ pc = "loop"
    /\ i < Len(shuffled)
    /\ stop
    /\ stopSeen' = TRUE
    /\ polled' = [polled EXCEPT !.Batch = @ + 1]
    /\ pc' = stopReturn(pc)
    /\ UNCHANGED <<t, stop, epoch, miniBatch, i, shuffled, lastSolution, useDelta,
                   solverVars, learnerVars, batches, handed, prev, probe>>

\* a mini-batch cut from the head of shuffled whatever i is
subsetFromHead(sh, at, batchSize) ==
    SubSeq(sh, 1, IF batchSize > Len(sh) THEN Len(sh) ELSE batchSize)

\* the mini-batch Train cuts from shuffled at i
subsetAt(sh, at, batchSize) ==
    LET bs == IF batchSize > Len(sh) - at THEN Len(sh) - at ELSE batchSize
    IN  SubSeq(sh, at + 1, at + bs)

\* MakeObjective called for the first mini-batch only
callMakeObjectiveOnce(calls, b) ==
    IF calls = <<>> THEN Append(calls, <<"MakeObjective", b>>) ELSE calls

\* the Learner's calls after Train's MakeObjective call for mini-batch number b
callMakeObjective(calls, b) == Append(calls, <<"MakeObjective", b>>)

\* the poll returns false: Learner.MakeObjective and a new cgSolver
BatchStart ==
    /\ pc = "loop"
    /\ i < Len(shuffled)
    /\ ~stop
    /\ batches < MaxBatches
    /\ batches' = batches + 1
    /\ DampingCoeff' = makeCoeff(DampingCoeff)
    /\ lastObjective' = NoObjective
    /\ hessian' \in hessVals(params)
    /\ learnerCalls' = callMakeObjective(learnerCalls, batches + 1)
    /\ solver' = newSolver([Coeff |-> DampingCoeff'], subsetAt(shuffled, i, t.BatchSize),
                           lastSolution)
    /\ solverCalls' = NoCalls
    /\ startSolution' = IF lastSolution = 0 THEN zeroOver(params) ELSE heap[lastSolution]
    /\ adj' = NoAdjust
    /\ handed' = Append(handed, solver'.Samples)
    /\ polled' = [Batch |-> polled.Batch + 1, CG |-> 0, atEnd |-> FALSE]
    /\ pc' = "step"
    /\ UNCHANGED <<t, stop, epoch, miniBatch, i, shuffled, lastSolution, useDelta, heap,
                   params, prev, stopSeen, probe>>

\* solver.Step() in the loop condition.  MaxSteps bounds the CG updates of a solver.
CGStep ==
    /\ pc = "step"
    /\ LET w0 == [c |-> solver, heap |-> heap, obj |-> lastObjective]
           first == solver.residual = EmptyDelta
       IN  \E wg \in (IF first THEN gradVals(params) ELSE {zeroOver(params)}),
              sv \in (IF first THEN ObjVals ELSE {R(0)}) :
              LET last == degenerate(initializeIfNeeded(w0, params, wg, sv, hessian).c)
              IN  \E qv \in (IF last THEN {R(0)} ELSE QuadVals),
                     bv \in (IF last THEN {R(0)} ELSE ObjVals) :
                     LET r == Step(w0, t, params, wg, sv, hessian, qv, bv)
                     IN  /\ Len(r.w.c.quadValues) <= MaxSteps
                         /\ solver' = r.w.c
                         /\ heap' = r.w.heap
                         /\ lastObjective' = r.w.obj
                         /\ pc' = IF r.shouldContinue THEN "poll" ELSE "best"
    /\ solverCalls' = [solverCalls EXCEPT !.Step = @ + 1]
    /\ UNCHANGED <<t, stop, epoch, miniBatch, i, shuffled, lastSolution, useDelta,
                   startSolution, params, DampingCoeff, hessian, adj, learnerCalls,
                   batches, histVars, stopSeen, probe>>

\* a poll in the CG loop whose true result is not acted on
CGPollStopIgnored ==
    /\ pc = "poll"
    /\ stop
    /\ stopSeen' = TRUE
    /\ polled' = [polled EXCEPT !.CG = @ + 1]
    /\ pc' = "step"
    /\ UNCHANGED <<t, stop, epoch, miniBatch, i, shuffled, lastSolution, useDelta,
                   solverVars, learnerVars, batches, handed, prev, probe>>

\* the poll in the CG loop returns true
CGPollStop ==
    /\ pc = "poll"
    /\ stop
    /\ stopSeen' = TRUE
    /\ polled' = [polled EXCEPT !.CG = @ + 1]
    /\ pc' = stopReturn(pc)
    /\ UNCHANGED <<t, stop, epoch, miniBatch, i, shuffled, lastSolution, useDelta,
                   solverVars, learnerVars, batches, handed, prev, probe>>

\* the poll in the CG loop returns false: the next Step
CGPollContinue ==
    /\ pc = "poll"
    /\ ~stop
    /\ polled' = [polled EXCEPT !.CG = @ + 1]
    /\ pc' = "step"
    /\ UNCHANGED <<t, stop, epoch, miniBatch, i, shuffled, lastSolution, useDelta,
                   solverVars, learnerVars, batches, handed, prev, stopSeen, probe>>

\* the best delta carried over to the next mini-batch
carriedBestDelta(c, bestDelta) == bestDelta

\* lastSolution = solver.Solution: what Train carries over to the next mini-batch
carriedSolution(c, bestDelta) == c.Solution

\* useDelta := solver.Best(); lastSolution = solver.Solution
BestCall ==
    /\ \E bv \in ObjVals :
          LET r == Best([c |-> solver, heap |-> heap, obj |-> lastObjective], bv)
          IN  /\ solver' = r.w.c
              /\ heap' = r.w.heap
              /\ lastObjective' = r.w.obj
              /\ useDelta' = r.bestDelta
              /\ lastSolution' = carriedSolution(r.w.c, r.bestDelta)
    /\ solverCalls' = [solverCalls EXCEPT !.Best = @ + 1]
    /\ polled' = [polled EXCEPT !.atEnd = stop]
    /\ pc' = "adjust"
    /\ UNCHANGED <<t, stop, epoch, miniBatch, i, shuffled, startSolution, params,
                   DampingCoeff, hessian, adj, learnerCalls, batches, handed, prev,
                   stopSeen, probe>>

\* the CG loop has ended: Train takes the solver's best delta
TakeBest ==
    /\ pc = "best"
    /\ BestCall

\* t.Learner.Adjust(useDelta, ...), DampingLearner.Adjust; miniBatch++ and the
\* loop's i += t.BatchSize.  The iteration's locals go out of scope: of the maps
\* only the one lastSolution names stays alive.
Commit ==
    /\ pc = "adjust"
    /\ \E q \in QuadOffsets, cv \in ObjVals :
          LET delta == heap[useDelta]
              quadOffset == q
              centerVal == objValue(lastObjective, EmptyDelta, cv)
              realOffset == adjustRealOffset(lastObjective, delta, cv)
              trust == adjustTrust(realOffset, centerVal, quadOffset)
          IN  /\ params' = addDelta(params, delta, R(1))
              /\ DampingCoeff' = adjustCoeff(DampingCoeff, trust)
              /\ lastObjective' = objAsked(lastObjective, EmptyDelta, cv)
              /\ adj' = [called |-> TRUE, steps |-> Len(solver.quadValues),
                         start |-> startSolution,
                         delta |-> delta, paramsBefore |-> params,
                         coeffBefore |-> DampingCoeff,
                         quadOffset |-> quadOffset, centerVal |-> centerVal,
                         realOffset |-> realOffset,
                         costAtDelta |-> objValue(lastObjective, delta, R(0)),
                         trust |-> trust]
    /\ learnerCalls' = Append(learnerCalls, <<"Adjust", batches>>)
    /\ prev' = [any |-> TRUE, delta |-> heap[useDelta], final |-> heap[solver.Solution]]
    /\ heap' = <<heap[lastSolution]>>
    /\ lastSolution' = 1
    /\ useDelta' = 0
    /\ solver' = NoSolver
    /\ miniBatch' = miniBatch + 1
    /\ i' = i + t.BatchSize
    /\ pc' = "loop"
    /\ UNCHANGED <<t, stop, epoch, shuffled, solverCalls, startSolution, hessian,
                   batches, handed, polled, stopSeen, probe>>

\* the steps of Train other than a call of solver.Step()
TrainRest ==
    \/ EpochStart
    \/ EpochEnd
    \/ BatchStop
    \/ BatchStart
    \/ CGPollStop
    \/ CGPollContinue
    \/ TakeBest
    \/ Commit

TrainNext == CGStep \/ TrainRest

Next == RaiseStop \/ TrainNext

Spec == Init /\ [][Next]_vars

\* Train is one sequential routine: it keeps running until it returns.  Each step
\* other than solver.Step() is taken when it can be, and a call of solver.Step()
\* returns: Train does not stay at it.
FairSpec == Spec /\ WF_vars(TrainRest) /\ []<>(pc # "step")

\* where Train is at solver.Step(), the call can return: CGStep is possible
StepCanReturn ==
    pc = "step" =>
        LET w0 == [c |-> solver, heap |-> heap, obj |-> lastObjective]
        IN  \E wg \in gradVals(params), sv \in ObjVals, qv \in QuadVals, bv \in ObjVals :
               Len(Step(w0, t, params, wg, sv, hessian, qv, bv).w.c.quadValues) <= MaxSteps

(***************************************************************************)
(* Claims about Train (Spec, FairSpec)                                     *)
(***************************************************************************)
\* C1: once a ShouldStop() poll has returned true, Train has returned, and from
\* then on no call is made on the Learner or the cgSolver and the parameters and
\* the damping coefficient stay as they were: the delta of the unfinished CG run
\* is never committed.
C1_StopReturnsAtOnce ==
    /\ [](stopSeen => pc = "returned")
    /\ [][stopSeen => UNCHANGED <<learnerCalls, solverCalls, params, DampingCoeff>>]_vars

\* Train has returned from the poll in the CG loop, with a CG update made and
\* the solution of the unfinished run not zero.
C1_Witness ==
    /\ stopSeen
    /\ pc = "returned"
    /\ solverCalls.Step > 0
    /\ solverCalls.Best = 0
    /\ Len(solver.quadValues) > 0
    /\ heap[solver.Solution] # zeroOver(params)
    /\ params = zeroOver(params)

\* the trust ratio of the documented heuristic for the last Adjust call:
\* (r - c) / (q - c) with r the true cost at the delta
adjRho ==
    RDiv(RSub(adj.costAtDelta, adj.centerVal), RSub(adj.quadOffset, adj.centerVal))

\* C2: Adjust takes for r the true cost at the proposed delta, and its trust
\* ratio is (r - c) / (q - c).
C2_TrustUsesCostAtDelta ==
    adj.called => (adj.realOffset = adj.costAtDelta /\ adj.trust = adjRho)

\* Adjust was called with a delta that is not zero, where the true cost at the
\* delta (1) differs from the true cost at the centre (0) and the quadratic
\* value is -1: the ratio of the heuristic is -1, the trust Adjust computed is 0
C2_Witness ==
    /\ adj.called
    /\ adj.delta # zeroOver(params)
    /\ adj.centerVal = R(0)
    /\ adj.costAtDelta = R(1)
    /\ adj.quadOffset = R(-1)
    /\ adj.realOffset = R(0)
    /\ adj.trust = R(0)

\* C3: after Adjust the coefficient is 1.5 times its value before when the trust
\* ratio is below 0.25, 2/3 times when it is above 0.75, unchanged otherwise.
C3_CoeffFollowsRho ==
    adj.called =>
        DampingCoeff =
            IF RLt(adjRho, <<1, 4>>) THEN RMul(adj.coeffBefore, <<3, 2>>)
            ELSE IF RGt(adjRho, <<3, 4>>) THEN RMul(adj.coeffBefore, <<2, 3>>)
            ELSE adj.coeffBefore

\* the coefficient does follow the trust Adjust computed, by the same thresholds
CoeffFollowsComputedTrust ==
    adj.called =>
        DampingCoeff =
            IF RLt(adj.trust, <<1, 4>>) THEN RMul(adj.coeffBefore, <<3, 2>>)
            ELSE IF RGt(adj.trust, <<3, 4>>) THEN RMul(adj.coeffBefore, <<2, 3>>)
            ELSE adj.coeffBefore

\* Adjust was called where the true cost fell from 1 to 0 as the quadratic value
\* said: the ratio of the heuristic is 1, and the coefficient went from 2 to 3
C3_Witness ==
    /\ adj.called
    /\ adj.centerVal = R(1)
    /\ adj.costAtDelta = R(0)
    /\ adj.quadOffset = R(0)
    /\ adj.coeffBefore = R(2)
    /\ DampingCoeff = R(3)

\* C7: the calls on the Learner are MakeObjective, Adjust, MakeObjective, ...,
\* the k-th pair belonging to the k-th mini-batch; a mini-batch cancelled in its
\* CG run has its MakeObjective and no Adjust.
C7_LearnerCycle ==
    /\ \A k \in 1..Len(learnerCalls) :
          learnerCalls[k] =
              <<IF k % 2 = 1 THEN "MakeObjective" ELSE "Adjust", (k + 1) \div 2>>
    /\ Len(learnerCalls) \in {2 * batches - 1, 2 * batches}
    /\ pc \in {"step", "poll", "best", "adjust"} => Len(learnerCalls) = 2 * batches - 1
    /\ (pc = "returned" /\ solver # NoSolver) => Len(learnerCalls) = 2 * batches - 1

\* the first mini-batch was committed and the second was cancelled in its CG run
C7_Witness ==
    /\ pc = "returned"
    /\ solver # NoSolver
    /\ learnerCalls = <<<<"MakeObjective", 1>>, <<"Adjust", 1>>, <<"MakeObjective", 2>>>>

\* C8 as stated: a CG run that is degenerate from iteration 0 commits the zero
\* delta and leaves the parameters unchanged, in every mini-batch.
C8_DegenerateCommitsZero ==
    (adj.called /\ adj.steps = 0) =>
        (adj.delta = zeroOver(params) /\ params = adj.paramsBefore)

\* C8 amended: a CG run that is degenerate from iteration 0 commits the delta the
\* solver started from (the zero delta in the first mini-batch of Train, where
\* the parameters stay unchanged; the solution carried over from the previous
\* mini-batch later), and Train goes on with the loop.
C8_DegenerateCommitsStart ==
    (adj.called /\ adj.steps = 0) =>
        /\ adj.delta = adj.start
        /\ params = addDelta(adj.paramsBefore, adj.start, R(1))
        /\ batches = 1 => (adj.delta = zeroOver(params) /\ params = adj.paramsBefore)
        /\ learnerCalls[Len(learnerCalls)] = <<"Adjust", batches>>
        /\ pc \in {"loop", "epoch", "returned"}

\* a second mini-batch whose CG run was degenerate from iteration 0 and started
\* from a solution that is not zero
C8_Witness ==
    /\ adj.called
    /\ adj.steps = 0
    /\ batches = 2
    /\ adj.start # zeroOver(params)
    /\ pc = "loop"

\* C9: once the stop signal is up, Train eventually returns.
C9_StopLeadsToReturn == stop ~> (pc = "returned")

\* the stop signal is up, there are no samples, and Train is in a later epoch
C9_Witness ==
    /\ stop
    /\ t.Samples = 0
    /\ epoch = MaxEpoch
    /\ pc = "loop"
    /\ ~stopSeen

\* with at least one sample, Train does return once the stop signal is up
StopLeadsToReturnNonEmpty == (t.Samples > 0) => (stop ~> (pc = "returned"))

\* C13 as stated: ShouldStop is polled before each mini-batch, and after every
\* Step() call of a run before anything else is done with the run's result; a
\* signal that is up at such a point (the last of them is where Best() is called)
\* prevents the commit of the mini-batch.
C13_PolledAfterEveryStep ==
    /\ pc \in {"step", "poll", "best", "adjust"} => polled.Batch = batches
    /\ pc = "step" => polled.CG = solverCalls.Step
    /\ pc = "adjust" => polled.CG = solverCalls.Step
    /\ adj.called => ~polled.atEnd
    /\ stopSeen => (pc = "returned" /\ (solver # NoSolver => ~adj.called))

\* C13 amended: ShouldStop is polled before each mini-batch and after every
\* Step() call that returned true; the Step() call that ends the run is not
\* followed by a poll.  A poll that returns true makes Train return, with no Adjust
\* for the mini-batch in hand; a signal raised after the last poll of a run does
\* not prevent its commit.
C13_PolledAfterContinuingStep ==
    /\ pc \in {"step", "poll", "best", "adjust"} => polled.Batch = batches
    /\ pc = "step" => polled.CG = solverCalls.Step
    /\ pc \in {"poll", "best", "adjust"} => polled.CG = solverCalls.Step - 1
    /\ adj.called => polled.CG = solverCalls.Step - 1
    /\ stopSeen =>
          /\ pc = "returned"
          /\ solver # NoSolver =>
                (~adj.called /\ polled.CG = solverCalls.Step
                   /\ learnerCalls[Len(learnerCalls)] = <<"MakeObjective", batches>>)
          /\ solver = NoSolver => (polled.Batch = batches + 1 /\ Len(handed) = miniBatch)

\* the stop signal went up after the second Step() call of a run had returned
\* false; one poll was made, after the first call, and the delta was committed
C13_Witness ==
    /\ adj.called
    /\ polled.atEnd
    /\ solverCalls.Step = 2
    /\ polled.CG = 1
    /\ adj.delta # zeroOver(params)
    /\ params # adj.paramsBefore

\* the step is an Adjust call on the Learner
adjustCalled ==
    /\ Len(learnerCalls') = Len(learnerCalls) + 1
    /\ learnerCalls'[Len(learnerCalls')][1] = "Adjust"

\* the step is a MakeObjective call on the Learner
makeObjectiveCalled ==
    /\ Len(learnerCalls') = Len(learnerCalls) + 1
    /\ learnerCalls'[Len(learnerCalls')][1] = "MakeObjective"

\* C19 as stated: the parameters and the damping coefficient change only in an
\* Adjust call; MakeObjective, Step() and Best() leave both as they were.
C19_OnlyAdjustChanges ==
    [][/\ (params' # params \/ DampingCoeff' # DampingCoeff) => adjustCalled
       /\ (makeObjectiveCalled \/ solverCalls'.Step = solverCalls.Step + 1
             \/ solverCalls'.Best = solverCalls.Best + 1)
          => (params' = params /\ DampingCoeff' = DampingCoeff)]_vars

\* C19 amended: the parameters change only in an Adjust call; the damping
\* coefficient changes only in an Adjust call and in the first MakeObjective call
\* when it is 0, which sets it to the default 1.  Step() and Best() leave both as
\* they were, and so does every other MakeObjective call.
C19_OnlyAdjustAndDefault ==
    [][/\ params' # params => adjustCalled
       /\ DampingCoeff' # DampingCoeff =>
             \/ adjustCalled
             \/ /\ makeObjectiveCalled
                /\ learnerCalls = <<>>
                /\ DampingCoeff = R(0)
                /\ DampingCoeff' = R(defaultDampingCoeff)
       /\ (solverCalls'.Step = solverCalls.Step + 1 \/ solverCalls'.Best = solverCalls.Best + 1)
          => (params' = params /\ DampingCoeff' = DampingCoeff)]_vars

\* the first MakeObjective call of a learner made with the coefficient unset
\* has set it to 1, before any Adjust call
C19_Witness ==
    /\ learnerCalls = <<<<"MakeObjective", 1>>>>
    /\ pc = "step"
    /\ DampingCoeff = R(defaultDampingCoeff)
    /\ solver.Objective.Coeff = R(defaultDampingCoeff)

\* the samples of the mini-batches handed out so far in the epoch, in order
RECURSIVE handedUpTo(_)
handedUpTo(k) == IF k = 0 THEN <<>> ELSE handedUpTo(k - 1) \o handed[k]

\* C11: in an epoch the k-th mini-batch handed to a CG run is the range
\* [(k-1) * BatchSize, min(k * BatchSize, N)) of the shuffled copy of the N
\* samples: the mini-batches are non-empty and pairwise disjoint, all but the last
\* have BatchSize samples, and when the epoch's loop ends they hold every sample
\* once.  Each has one CG run, and one commit after it unless Train has returned:
\* miniBatch counts the commits of the epoch.
C11_BatchesPartitionShuffled ==
    LET N == Len(shuffled)
        upper(k) == IF k * t.BatchSize > N THEN N ELSE k * t.BatchSize
    IN  /\ \A k \in 1..Len(handed) :
              /\ handed[k] = SubSeq(shuffled, (k - 1) * t.BatchSize + 1, upper(k))
              /\ handed[k] # <<>>
              /\ k < Len(handed) => Len(handed[k]) = t.BatchSize
              /\ Len(handed[k]) <= t.BatchSize
              /\ \A j \in 1..(k - 1) :
                    {handed[j][x] : x \in DOMAIN handed[j]} \cap
                    {handed[k][x] : x \in DOMAIN handed[k]} = {}
        /\ shuffled \in {<<>>, shuffledCopy(t.Samples)}
        /\ (pc = "epoch" \/ (pc = "loop" /\ ~(i < N))) => handedUpTo(Len(handed)) = shuffled
        /\ pc \in {"step", "poll", "best", "adjust"} =>
              (Len(handed) = miniBatch + 1 /\ solver.Samples = handed[Len(handed)])
        /\ pc \in {"epoch", "loop"} => Len(handed) = miniBatch
        /\ pc = "returned" => Len(handed) \in {miniBatch, miniBatch + 1}
        /\ i = miniBatch * t.BatchSize

\* an epoch over three samples with BatchSize 2 has ended: two mini-batches, of
\* two samples and of one, each committed
C11_Witness ==
    /\ pc = "epoch"
    /\ t.Samples = 3
    /\ t.BatchSize = 2
    /\ handed = <<<<1, 2>>, <<3>>>>
    /\ miniBatch = 2
    /\ learnerCalls[Len(learnerCalls)] = <<"Adjust", 2>>

(***************************************************************************)
(* Train over mini-batches of a Learner with two parameters, while the     *)
(* stop signal stays down (WarmSpec): two samples, mini-batches of one.    *)
(***************************************************************************)
WarmSettings ==
    [Samples       : {2},
     BatchSize     : {1},
     Convergence   : {DefaultConvergence, [MinK |-> R(1), KScale |-> R(0), Epsilon |-> R(1)]},
     BacktrackRate : {R(0)}]

WarmInit ==
    /\ t \in WarmSettings
    /\ params = <<R(0), R(0)>>
    /\ DampingCoeff = R(0)
    /\ probe = NoProbe
    /\ TrainIdle

WarmNext ==
    \/ EpochStart
    \/ EpochEnd
    \/ BatchStart
    \/ CGStep
    \/ CGPollContinue
    \/ TakeBest
    \/ Commit

WarmSpec == WarmInit /\ [][WarmNext]_vars

\* C14 as stated: a mini-batch's solver starts from the delta Best() returned and
\* Adjust committed for the previous mini-batch, and from the zero delta over the
\* parameters in the first mini-batch.
C14_StartsFromAcceptedDelta ==
    pc \in {"step", "poll", "best", "adjust"} =>
        /\ startSolution = IF prev.any THEN prev.delta ELSE zeroOver(params)
        /\ (solverCalls.Step >= 1 /\ Len(solver.quadValues) = 0) =>
              heap[solver.Solution] = startSolution

\* C14 amended: a mini-batch's solver starts from the last Solution of the
\* previous mini-batch's solver, its final CG iterate, whichever checkpoint
\* Best() returned, and from the zero delta over the parameters in the first
\* mini-batch.
C14_StartsFromLastSolution ==
    pc \in {"step", "poll", "best", "adjust"} =>
        /\ startSolution = IF prev.any THEN prev.final ELSE zeroOver(params)
        /\ prev.any <=> batches > 1
        /\ (solverCalls.Step >= 1 /\ Len(solver.quadValues) = 0) =>
              heap[solver.Solution] = startSolution
        /\ solverCalls.Step = 0 =>
              solver.Solution = (IF prev.any THEN lastSolution ELSE 0)

\* the second mini-batch's solver was initialized where the first mini-batch's
\* solver ended on another delta than the one Best() returned
C14_Witness ==
    /\ pc = "poll"
    /\ batches = 2
    /\ solverCalls.Step = 1
    /\ prev.any
    /\ prev.delta # prev.final
    /\ startSolution = prev.final

(***************************************************************************)
(* One CG run of a cgSolver on its own (CGSpec): a Learner with two        *)
(* parameters, the solver as Train has just made it for a mini-batch, and  *)
(* a caller that may ask for Best() after any number of Step() calls.      *)
(***************************************************************************)
\* the Convergence and BacktrackRate settings tried
CGSettings ==
    [Samples       : {1},
     BatchSize     : {1},
     Convergence   : [MinK : {R(0), R(1)}, KScale : {R(0)}, Epsilon : {R(0), R(1)}],
     BacktrackRate : {R(0), R(3)}]

\* the solution a previous mini-batch left, which was committed as its delta
WarmSolution == <<<<1, 2>>, R(0)>>

\* Train is about to call Step() on a new solver: for its first mini-batch
\* (Solution is nil), or for its second one (Solution is the previous one's)
CGInit ==
    /\ \E warm \in BOOLEAN :
          /\ heap = IF warm THEN <<WarmSolution>> ELSE <<>>
          /\ lastSolution = IF warm THEN 1 ELSE 0
          /\ params = IF warm THEN WarmSolution ELSE <<R(0), R(0)>>
          /\ batches = IF warm THEN 2 ELSE 1
          /\ miniBatch = IF warm THEN 1 ELSE 0
          /\ i = IF warm THEN 1 ELSE 0
          /\ shuffled = IF warm THEN shuffledCopy(2) ELSE shuffledCopy(1)
          /\ learnerCalls =
                IF warm
                THEN <<<<"MakeObjective", 1>>, <<"Adjust", 1>>, <<"MakeObjective", 2>>>>
                ELSE <<<<"MakeObjective", 1>>>>
          /\ startSolution = IF warm THEN WarmSolution ELSE <<R(0), R(0)>>
          /\ \E tr \in CGSettings : t = [tr EXCEPT !.Samples = Len(shuffled)]
    /\ DampingCoeff = R(defaultDampingCoeff)
    /\ solver = newSolver([Coeff |-> DampingCoeff], <<i + 1>>, lastSolution)
    /\ stop = FALSE
    /\ pc = "step"
    /\ epoch = 0
    /\ useDelta = 0
    /\ lastObjective = NoObjective
    /\ hessian \in hessVals(params)
    /\ adj = NoAdjust
    /\ solverCalls = NoCalls
    /\ stopSeen = FALSE
    /\ handed = [k \in 1..batches |-> <<k>>]
    /\ polled = [Batch |-> batches, CG |-> 0, atEnd |-> FALSE]
    /\ prev = IF lastSolution = 0 THEN NoPrev
              ELSE [any |-> TRUE, delta |-> WarmSolution, final |-> WarmSolution]
    /\ probe = NoProbe

\* the caller asks for Best() before Step() has returned false
BestBeforeEnd ==
    /\ pc = "step"
    /\ BestCall

CGNext == CGStep \/ CGPollContinue \/ TakeBest \/ BestBeforeEnd

CGSpec == CGInit /\ [][CGNext]_vars

(***************************************************************************)
(* Claims about a CG run (CGSpec)                                          *)
(***************************************************************************)
\* the delta a reference names; nil names the empty delta
deltaAt(ref) == IF ref = 0 THEN EmptyDelta ELSE heap[ref]

\* the true cost the wrapped objective has returned for the delta x
trueCost(x) == lastObjective[objKey(x)]

\* C5: after Best(), the final CG iterate Solution is one of the checkpoints,
\* with its true cost as the checkpoint's value, and the true cost of the delta
\* Best() returned is less than or equal to the true cost of Solution.
C5_BestNotWorseThanFinal ==
    pc = "adjust" =>
        LET final == deltaAt(solver.Solution)
            best == deltaAt(useDelta)
        IN  /\ objKey(final) \in DOMAIN lastObjective
            /\ objKey(best) \in DOMAIN lastObjective
            /\ RLe(trueCost(best), trueCost(final))
            /\ \E j \in 1..Len(solver.backtrackDeltas) :
                  /\ deltaAt(solver.backtrackDeltas[j]) = final
                  /\ solver.backtrackValues[j] = trueCost(final)

\* Best() returned a checkpoint of an earlier iteration that is strictly better
\* than the final iterate of a run of two CG iterations
C5_Witness ==
    /\ pc = "adjust"
    /\ Len(solver.quadValues) = 2
    /\ Len(solver.backtrackDeltas) >= 2
    /\ deltaAt(useDelta) # deltaAt(solver.Solution)
    /\ RLt(trueCost(deltaAt(useDelta)), trueCost(deltaAt(solver.Solution)))

\* C12: Best() returns the recorded checkpoint whose true cost is minimal over the
\* recorded checkpoints, the current solution's included, and of several minimal
\* ones the one recorded first.
C12_BestIsFirstMinimal ==
    pc = "adjust" =>
        LET values == solver.backtrackValues
            deltas == solver.backtrackDeltas
        IN  /\ Len(values) >= 1
            /\ Len(deltas) = Len(values)
            /\ deltaAt(solver.Solution) \in {deltaAt(deltas[k]) : k \in DOMAIN deltas}
            /\ \A k \in DOMAIN values : values[k] = trueCost(deltaAt(deltas[k]))
            /\ \E j \in DOMAIN values :
                  /\ useDelta = deltas[j]
                  /\ \A k \in DOMAIN values : RLe(values[j], values[k])
                  /\ \A k \in 1..(j - 1) : RLt(values[j], values[k])

\* Best() returned the first of two checkpoints of equal true cost that hold
\* different deltas
C12_Witness ==
    /\ pc = "adjust"
    /\ Len(solver.backtrackValues) = 2
    /\ solver.backtrackValues[1] = solver.backtrackValues[2]
    /\ deltaAt(solver.backtrackDeltas[1]) # deltaAt(solver.backtrackDeltas[2])
    /\ useDelta = solver.backtrackDeltas[1]

\* C16: a Step() call that finds p.Hp = 0 or |r|^2 = 0 after its lazy
\* initialization returns false and leaves the solver as the initialization left
\* it: Solution, residual, search direction, Hessian product, quadratic values
\* and checkpoints.  Every other Step() call moves Solution by one CG update and
\* appends exactly one quadratic value.
C16_DegenerateStepChangesNothing ==
    [][solverCalls'.Step = solverCalls.Step + 1 =>
         \E wg \in gradVals(params), sv \in ObjVals :
            LET w1 == initializeIfNeeded([c |-> solver, heap |-> heap, obj |-> lastObjective],
                                         params, wg, sv, hessian)
                c == w1.c
            IN  IF dot(c.projectedResidual, c.hessianProduct) = R(0) \/ c.residualMag2 = R(0)
                THEN /\ solver' = c
                     /\ heap' = w1.heap
                     /\ lastObjective' = w1.obj
                     /\ pc' = "best"
                ELSE /\ Len(solver'.quadValues) = Len(c.quadValues) + 1
                     /\ SubSeq(solver'.quadValues, 1, Len(c.quadValues)) = c.quadValues
                     /\ solver'.Solution = c.Solution
                     /\ heap'[c.Solution] # w1.heap[c.Solution]
                     /\ Len(solver'.backtrackDeltas) <= Len(c.backtrackDeltas) + 1]_vars

\* the second Step() call of a run was degenerate: it returned false with the one
\* quadratic value of the first call still the only one
C16_Witness ==
    /\ pc = "best"
    /\ solverCalls.Step = 2
    /\ solverCalls.Best = 0
    /\ Len(solver.quadValues) = 1
    /\ degenerate(solver)

\* a run ended by convergence, and Best() was taken
CGConvergedReached ==
    /\ pc = "adjust"
    /\ Len(solver.quadValues) = 2
    /\ converging(solver.quadValues, solver.startObjective, t.Convergence)

\* Best() was taken before any Step() call
CGNoStepReached == pc = "adjust" /\ solverCalls.Step = 0

\* a run that was degenerate from iteration 0, and Best() was taken
CGDegenerateReached ==
    pc = "adjust" /\ solverCalls.Step = 1 /\ Len(solver.quadValues) = 0

(***************************************************************************)
(* The checkpoints of a long CG run (BtSpec): a solver over one parameter  *)
(* whose Step() calls are neither degenerate nor converging.  The update   *)
(* of a call moves Solution by BtStepTaken; the residual, the direction    *)
(* and the Hessian product, which the checkpoints do not read, are left    *)
(* out.                                                                    *)
(***************************************************************************)
\* stepSize * projectedResidual of each update
BtStepTaken == <<R(1)>>

BtRates == {R(0), <<3, 2>>, R(3)}

BtInit ==
    /\ t \in [Samples : {1}, BatchSize : {1}, Convergence : {DefaultConvergence},
              BacktrackRate : BtRates]
    /\ params = <<R(0)>>
    /\ DampingCoeff = R(defaultDampingCoeff)
    /\ solver = newSolver([Coeff |-> DampingCoeff], <<1>>, 1)
    /\ heap = <<zeroOver(params)>>
    /\ lastSolution = 1
    /\ startSolution = zeroOver(params)
    /\ pc = "step"
    /\ stop = FALSE
    /\ epoch = 0
    /\ miniBatch = 0
    /\ i = 0
    /\ shuffled = shuffledCopy(1)
    /\ useDelta = 0
    /\ lastObjective = NoObjective
    /\ hessian = <<>>
    /\ adj = NoAdjust
    /\ learnerCalls = <<<<"MakeObjective", 1>>>>
    /\ solverCalls = NoCalls
    /\ batches = 1
    /\ stopSeen = FALSE
    /\ handed = <<<<1>>>>
    /\ polled = [Batch |-> 1, CG |-> 0, atEnd |-> FALSE]
    /\ prev = NoPrev
    /\ probe = NoProbe

\* a Step() call that returns true: the update, the new quadratic value (0, as
\* startObjective is), converging() false, updateBacktracking()
BtStep ==
    /\ pc = "step"
    /\ Len(solver.quadValues) < MaxIters
    /\ \E bv \in ObjVals :
          LET w0 == [c |-> solver, heap |-> heap, obj |-> lastObjective]
              w2 == [w0 EXCEPT !.heap[solver.Solution] = addDelta(@, BtStepTaken, R(1)),
                               !.c.quadValues = Append(@, R(0)),
                               !.c.justBacktracked = FALSE]
              w3 == updateBacktracking(w2, t, bv)
          IN  /\ ~converging(w2.c.quadValues, w2.c.startObjective, t.Convergence)
              /\ solver' = w3.c
              /\ heap' = w3.heap
              /\ lastObjective' = w3.obj
    /\ solverCalls' = [solverCalls EXCEPT !.Step = @ + 1]
    /\ pc' = "poll"
    /\ UNCHANGED <<t, stop, epoch, miniBatch, i, shuffled, lastSolution, useDelta,
                   startSolution, params, DampingCoeff, hessian, adj, learnerCalls,
                   batches, stopSeen, histVars, probe>>

BtNext == BtStep \/ CGPollContinue

BtSpec == BtInit /\ [][BtNext]_vars

\* the rate updateBacktracking uses
btRateOf(tr) == IF tr.BacktrackRate = R(0) THEN defaultBacktrackRate ELSE tr.BacktrackRate

\* the iteration count a checkpoint was recorded at: Solution moves by 1 in each
\* iteration, so it is the value the snapshot holds
recordedAt(k) == heap[solver.backtrackDeltas[k]][1][1]

\* C18: after i iterations backtrackCount is the least exponent e with
\* int(btRate^e) > i, the checkpoints are snapshots of Solution at the iteration
\* counts int(btRate^e) of the exponents below it, each with its true cost and
\* each as it was when recorded, and the two lists have equal length; with the
\* rate 1.3 the counts are 1, 2, 3, 4, 6, 8, 10, 13.  A Step() call records a
\* checkpoint exactly when int(btRate^backtrackCount) is at most the new
\* iteration count, and at most one, a copy of Solution.
C18_CheckpointSchedule ==
    /\ [](LET iters == Len(solver.quadValues)
              bc == solver.backtrackCount
              rate == btRateOf(t)
              deltas == solver.backtrackDeltas
          IN  /\ Len(deltas) = Len(solver.backtrackValues)
              /\ truncPow(rate, bc) > iters
              /\ bc > 0 => truncPow(rate, bc - 1) <= iters
              /\ {recordedAt(k) : k \in DOMAIN deltas} =
                    {truncPow(rate, e) : e \in 0..(bc - 1)}
              /\ \A k \in DOMAIN deltas :
                    /\ k > 1 => recordedAt(k - 1) < recordedAt(k)
                    /\ heap[deltas[k]][1][2] = 1
                    /\ solver.backtrackValues[k] = trueCost(heap[deltas[k]])
              /\ rate = <<13, 10>> =>
                    {recordedAt(k) : k \in DOMAIN deltas} =
                        {1, 2, 3, 4, 6, 8, 10, 13} \cap 1..iters)
    /\ [][solverCalls'.Step = solverCalls.Step + 1 =>
             LET new == Len(solver'.backtrackDeltas)
                 now == Len(solver'.quadValues)
             IN  /\ new \in {Len(solver.backtrackDeltas), Len(solver.backtrackDeltas) + 1}
                 /\ new = Len(solver.backtrackDeltas) + 1 <=>
                        truncPow(btRateOf(t), solver.backtrackCount) <= now
                 /\ new = Len(solver.backtrackDeltas) + 1 =>
                        /\ solver'.backtrackDeltas[new] # solver'.Solution
                        /\ heap'[solver'.backtrackDeltas[new]] = heap'[solver'.Solution]
                        /\ solver'.justBacktracked
                 /\ SubSeq(solver'.backtrackDeltas, 1, Len(solver.backtrackDeltas))
                        = solver.backtrackDeltas]_vars

\* thirteen iterations with the default rate 1.3: eight checkpoints, recorded at
\* the counts 1, 2, 3, 4, 6, 8, 10 and 13
C18_Witness ==
    /\ t.BacktrackRate = R(0)
    /\ Len(solver.quadValues) = 13
    /\ [k \in DOMAIN solver.backtrackDeltas |-> recordedAt(k)] = <<1, 2, 3, 4, 6, 8, 10, 13>>
    /\ solver.backtrackCount = 11
    /\ heap[solver.Solution] = <<R(13)>>

(***************************************************************************)
(* cgSolver.converging on its own (ConvSpec): a solver records quadratic   *)
(* values one by one, as Step does, and converging() is evaluated after    *)
(* each.  probe holds the solver's quadValues and startObjective and the   *)
(* result of the call.                                                     *)
(***************************************************************************)
ConvSettings == [MinK : {R(0), R(2)}, KScale : {R(0), <<1, 2>>}, Epsilon : {R(0), R(1)}]

convergingCall(quadValues, startObjective) ==
    [fn |-> "converging", quadValues |-> quadValues, startObjective |-> startObjective,
     result |-> converging(quadValues, startObjective, t.Convergence)]

ConvInit ==
    /\ t \in [Samples : {0}, BatchSize : {1}, Convergence : ConvSettings,
              BacktrackRate : {R(0)}]
    /\ params = <<R(0)>>
    /\ DampingCoeff = R(defaultDampingCoeff)
    /\ \E sv \in ObjVals : probe = convergingCall(<<>>, sv)
    /\ TrainIdle

\* c.quadValues = append(c.quadValues, quadValue); c.converging()
ConvRecord ==
    /\ Len(probe.quadValues) < MaxQuadValues
    /\ \E qv \in QuadVals :
          probe' = convergingCall(Append(probe.quadValues, qv), probe.startObjective)
    /\ UNCHANGED <<t, stop, trainVars, solverVars, learnerVars, batches, histVars, stopSeen>>

ConvNext == ConvRecord

ConvSpec == ConvInit /\ [][ConvNext]_vars

\* C6: converging() is false while the number of recorded quadratic values is
\* not greater than max(minK, kScale * count), the settings' zero values standing
\* for the defaults; with minK = 10 it is false at every count below 10.
C6_NoConvergenceWithinWindow ==
    probe.fn = "converging" =>
        LET count == Len(probe.quadValues)
            minK == IF t.Convergence.MinK = R(0) THEN R(defaultConvergenceMinK)
                    ELSE t.Convergence.MinK
            kScale == IF t.Convergence.KScale = R(0) THEN defaultConvergenceKScale
                      ELSE t.Convergence.KScale
        IN  /\ RLe(R(count), RMax(minK, RMul(kScale, R(count)))) => ~probe.result
            /\ (minK = R(10) /\ count < 10) => ~probe.result

\* with the default minK of 10, converging() is true at 11 recorded values
C6_Witness ==
    /\ probe.fn = "converging"
    /\ t.Convergence.MinK = R(0)
    /\ Len(probe.quadValues) = 11
    /\ probe.result

\* the four conditions of the documented criterion, for the call probe holds
convergingAsDocumented ==
    LET quad == probe.quadValues
        count == Len(quad)
        minK == IF t.Convergence.MinK = R(0) THEN R(defaultConvergenceMinK)
                ELSE t.Convergence.MinK
        kScale == IF t.Convergence.KScale = R(0) THEN defaultConvergenceKScale
                  ELSE t.Convergence.KScale
        eps == IF t.Convergence.Epsilon = R(0) THEN defaultConvergenceEpsilon
               ELSE t.Convergence.Epsilon
        k == RTrunc(RMax(minK, RMul(kScale, R(count))))
    IN  /\ count >= 2
        /\ RLt(quad[count], probe.startObjective)
        /\ k < count
        /\ LET cur == RSub(quad[count], probe.startObjective)
               old == RSub(quad[count - k], probe.startObjective)
           IN  RLt(RDiv(RSub(cur, old), cur), RMul(R(k), eps))

\* C15: converging() is true if and only if at least 2 quadratic values are
\* recorded, the most recent one is strictly below startObjective, k is less
\* than the count, and (cur - old) / cur < k * epsilon; it is false when the most
\* recent value equals startObjective.
C15_ConvergingIff ==
    probe.fn = "converging" =>
        /\ probe.result <=> convergingAsDocumented
        /\ (Len(probe.quadValues) >= 1
              /\ probe.quadValues[Len(probe.quadValues)] = probe.startObjective)
           => ~probe.result

\* converging() is true with the values 1, 0, 0 recorded, startObjective 0 and
\* minK 2: the most recent value equals startObjective
C15_Witness ==
    /\ probe.fn = "converging"
    /\ t.Convergence.MinK = R(2)
    /\ probe.quadValues = <<R(1), R(0), R(0)>>
    /\ probe.startObjective = R(0)
    /\ probe.result

\* where the most recent value differs from startObjective, converging() is the
\* documented criterion
ConvergingIffOffStart ==
    (probe.fn = "converging" /\ Len(probe.quadValues) >= 1
       /\ probe.quadValues[Len(probe.quadValues)] # probe.startObjective)
    => (probe.result <=> convergingAsDocumented)

(***************************************************************************)
(* A DampingLearner on its own (DampSpec): its user calls MakeObjective    *)
(* and Adjust in turn, as the Learner interface asks, with any delta and   *)
(* with wrapped results that may be infinite or not a number.  probe holds *)
(* the coefficient the learner was made with and the number of times       *)
(* MakeObjective has set the default.                                      *)
(***************************************************************************)
\* results of the wrapped Quad
DampQuadOffsets == QuadOffsets \cup {R(1), NaN, <<1, 0>>}

\* true costs the wrapped Objective returns for the zero delta
DampObjVals == ObjVals \cup {<<1, 0>>}

\* the deltas Adjust is called with
DampDeltas == {<<R(0)>>, <<R(1)>>}

DampInit ==
    /\ t = [Samples |-> 1, BatchSize |-> 1, Convergence |-> DefaultConvergence,
            BacktrackRate |-> R(0)]
    /\ params = <<R(0)>>
    /\ DampingCoeff \in {R(0), <<1, 2>>, R(2)}
    /\ probe = [fn |-> "DampingLearner", first |-> DampingCoeff, defaults |-> 0]
    /\ TrainIdle

\* DampingLearner.MakeObjective
DampMake ==
    /\ Len(learnerCalls) % 2 = 0
    /\ batches < MaxCycles
    /\ batches' = batches + 1
    /\ DampingCoeff' = makeCoeff(DampingCoeff)
    /\ lastObjective' = NoObjective
    /\ learnerCalls' = callMakeObjective(learnerCalls, batches + 1)
    /\ probe' = [probe EXCEPT !.defaults = IF DampingCoeff = R(0) THEN @ + 1 ELSE @]
    /\ UNCHANGED <<t, stop, trainVars, solverVars, params, hessian, adj, stopSeen,
                   histVars>>

\* DampingLearner.Adjust
DampAdjust ==
    /\ Len(learnerCalls) % 2 = 1
    /\ \E delta \in DampDeltas, q \in DampQuadOffsets, cv \in DampObjVals :
          LET quadOffset == q
              centerVal == objValue(lastObjective, EmptyDelta, cv)
              realOffset == adjustRealOffset(lastObjective, delta, cv)
              trust == adjustTrust(realOffset, centerVal, quadOffset)
          IN  /\ params' = addDelta(params, delta, R(1))
              /\ DampingCoeff' = adjustCoeff(DampingCoeff, trust)
              /\ lastObjective' = objAsked(lastObjective, EmptyDelta, cv)
              /\ adj' = [called |-> TRUE, steps |-> 0, start |-> EmptyDelta,
                         delta |-> delta, paramsBefore |-> params,
                         coeffBefore |-> DampingCoeff,
                         quadOffset |-> quadOffset, centerVal |-> centerVal,
                         realOffset |-> realOffset,
                         costAtDelta |-> objValue(lastObjective, delta, R(0)),
                         trust |-> trust]
    /\ learnerCalls' = Append(learnerCalls, <<"Adjust", batches>>)
    /\ UNCHANGED <<t, stop, trainVars, solverVars, hessian, batches, stopSeen, histVars,
                   probe>>

DampNext == DampMake \/ DampAdjust

DampSpec == DampInit /\ [][DampNext]_vars

C20_CoeffStaysPositive ==
    /\ Len(learnerCalls) >= 1 => RGt(DampingCoeff, R(0))
    /\ probe.defaults <= 1
    /\ probe.defaults = 1 <=> (probe.first = R(0) /\ Len(learnerCalls) >= 1)
    /\ (probe.first = R(0) /\ Len(learnerCalls) = 1) => DampingCoeff = R(defaultDampingCoeff)

\* a learner made with the coefficient unset has gone through three cycles that
\* each raised the coefficient: the default was set once, and 1 became 27/8
C20_Witness ==
    /\ probe.first = R(0)
    /\ probe.defaults = 1
    /\ learnerCalls[Len(learnerCalls)] = <<"Adjust", 3>>
    /\ DampingCoeff = <<27, 8>>

(***************************************************************************)
(* The damped objective on its own (ObjSpec): DampingLearner.MakeObjective *)
(* makes it, and its four methods are called with deltas over two          *)
(* parameters.  probe holds the objective, the call's arguments, the       *)
(* wrapped objective's result and the call's result.                       *)
(***************************************************************************)
\* the deltas tried
Deltas == [1..2 -> {R(0), R(1), <<-1, 2>>}]

\* results of the wrapped QuadGrad and QuadHessian
WrappedDeltas == {<<R(0), R(0)>>, <<R(1), R(-1)>>}

ObjInit ==
    /\ t = [Samples |-> 0, BatchSize |-> 1, Convergence |-> DefaultConvergence,
            BacktrackRate |-> R(0)]
    /\ params = <<R(0), R(0)>>
    /\ DampingCoeff \in {R(0), R(2), <<3, 2>>}
    /\ probe = NoProbe
    /\ TrainIdle

\* DampingLearner.MakeObjective
ObjMake ==
    /\ DampingCoeff' = makeCoeff(DampingCoeff)
    /\ probe' = [fn |-> "MakeObjective", d |-> [Coeff |-> DampingCoeff']]
    /\ UNCHANGED <<t, stop, trainVars, solverVars, params, lastObjective, hessian, adj,
                   learnerCalls, batches, histVars, stopSeen>>

objFrame ==
    UNCHANGED <<t, stop, trainVars, solverVars, learnerVars, batches, histVars, stopSeen>>

ObjQuad ==
    /\ probe.fn # "none"
    /\ \E delta \in Deltas, n \in 0..MaxSamples, wrapped \in QuadVals :
          probe' = [fn |-> "Quad", d |-> probe.d, delta |-> delta, n |-> n,
                    wrapped |-> wrapped,
                    result |-> dampedQuad(probe.d, wrapped, delta, n)]
    /\ objFrame

ObjQuadGrad ==
    /\ probe.fn # "none"
    /\ \E delta \in Deltas, n \in 0..MaxSamples, wrapped \in WrappedDeltas :
          probe' = [fn |-> "QuadGrad", d |-> probe.d, delta |-> delta, n |-> n,
                    wrapped |-> wrapped,
                    result |-> dampedQuadGrad(probe.d, wrapped, delta, n)]
    /\ objFrame

ObjQuadHessian ==
    /\ probe.fn # "none"
    /\ \E delta \in Deltas, n \in 0..MaxSamples, wrapped \in WrappedDeltas :
          probe' = [fn |-> "QuadHessian", d |-> probe.d, delta |-> delta, n |-> n,
                    wrapped |-> wrapped,
                    result |-> dampedQuadHessian(probe.d, wrapped, delta, n)]
    /\ objFrame

ObjObjective ==
    /\ probe.fn # "none"
    /\ \E delta \in Deltas \cup {EmptyDelta}, n \in 0..MaxSamples, wrapped \in ObjVals :
          probe' = [fn |-> "Objective", d |-> probe.d, delta |-> delta, n |-> n,
                    wrapped |-> wrapped,
                    result |-> dampedObjective(probe.d, wrapped)]
    /\ objFrame

ObjNext == ObjMake \/ ObjQuad \/ ObjQuadGrad \/ ObjQuadHessian \/ ObjObjective

ObjSpec == ObjInit /\ [][ObjNext]_vars

\* C4: Quad is the wrapped Quad plus lambda * n * ||delta||^2, and QuadGrad and
\* QuadHessian are the wrapped result plus 2 * lambda * n * delta, lambda being
\* the coefficient the objective was made with.
C4_PenaltyScaledByCoeff ==
    LET lambdaN == RMul(probe.d.Coeff, R(probe.n))
    IN  /\ probe.fn = "Quad" =>
              probe.result = RAdd(probe.wrapped, RMul(lambdaN, magSquared(probe.delta)))
        /\ probe.fn \in {"QuadGrad", "QuadHessian"} =>
              probe.result = addDelta(probe.wrapped, probe.delta, RMul(R(2), lambdaN))

\* Quad was called on an objective made with coefficient 2, over one sample, at
\* the delta (1, 0), where the wrapped Quad is 0: the result is 1
C4_Witness ==
    /\ probe.fn = "Quad"
    /\ probe.d.Coeff = R(2)
    /\ probe.n = 1
    /\ probe.delta = <<R(1), R(0)>>
    /\ probe.wrapped = R(0)
    /\ probe.result = R(1)

\* what the code does: the penalty is n * ||delta||^2 and 2 * n * delta, whatever
\* the coefficient is
PenaltyWithoutCoeff ==
    /\ probe.fn = "Quad" =>
          probe.result = RAdd(probe.wrapped, RMul(R(probe.n), magSquared(probe.delta)))
    /\ probe.fn \in {"QuadGrad", "QuadHessian"} =>
          probe.result = addDelta(probe.wrapped, probe.delta, R(2 * probe.n))

\* C10: Objective returns the wrapped objective's true cost, whatever the
\* coefficient is.
C10_ObjectivePassesThrough ==
    probe.fn = "Objective" => probe.result = probe.wrapped

\* Objective was called on an objective with coefficient 2, at a delta that is
\* not zero, over a sample
C10_Witness ==
    /\ probe.fn = "Objective"
    /\ probe.d.Coeff = R(2)
    /\ probe.delta = <<R(1), R(0)>>
    /\ probe.n = 1
    /\ probe.wrapped = R(1)
    /\ probe.result = R(1)

====
